---- MODULE Spec2Model ----
(***************************************************************************)
(* A model of the FastAPI Plotly backend (src/main.py, src/models.py,      *)
(* src/database.py): the sliding-window rate limiter, the CSRF token       *)
(* store, the pydantic request models, the NoSQL sanitizer helper and the  *)
(* CRUD handlers over the MongoDB collection.                              *)
(*                                                                         *)
(* Time is an integer number of seconds (time.time() and, truncated, the   *)
(* datetime.utcnow() stamps of the documents).                             *)
(***************************************************************************)
EXTENDS Integers, Sequences, FiniteSets, TLC

VARIABLES
    now,             \* the wall clock read by time.time() / datetime.utcnow()
    request_counts,  \* main.py:132  client_ip -> list of request times
    csrf_tokens,     \* main.py:93   token -> issue time
    collection,      \* the MongoDB collection: a set of documents
    pending,         \* create operations between their read and their insert
    last,            \* the last request served and its response (observer)
    issued_at,       \* observer: token -> time it was issued (never swept)
    oid_seq,         \* the number of ObjectIds generated so far
    assigned,        \* observer: every item_id a successful create returned
    last_admit,      \* observer: client -> time of its last admitted request
    rejected_since,  \* observer: client -> rejected since its last admission
    san_in, san_out, san_twice, san_pc  \* the sanitizer applied to one input

vars == <<now, request_counts, csrf_tokens, collection, pending, last,
          issued_at, oid_seq, assigned, last_admit, rejected_since,
          san_in, san_out, san_twice, san_pc>>

limiterVars == <<request_counts, last_admit, rejected_since>>
sanVars == <<san_in, san_out, san_twice, san_pc>>
storeVars == <<collection, pending, oid_seq, assigned>>
tokenVars == <<csrf_tokens, issued_at>>

-----------------------------------------------------------------------------
(* Program constants *)

RATE_WINDOW == 60
RATE_LIMIT == 100
TOKEN_TTL == 86400

\* time.time() when the process starts: far more than 24h after the epoch
StartTime == TOKEN_TTL + TOKEN_TTL

-----------------------------------------------------------------------------
(* JSON values: what a request body or a stored field can hold *)

Null == [kind |-> "null"]
Num(i) == [kind |-> "int", val |-> i]
Str(s) == [kind |-> "str", chars |-> s]
Map(f) == [kind |-> "map", entries |-> f]
Lst(s) == [kind |-> "list", elems |-> s]

-----------------------------------------------------------------------------
(* sanitize_mongodb_input, main.py:266-274 *)

dangerous_keys == {"$where", "$regex", "$text", "$expr", "$jsonSchema", "$mod", "$ne"}

\* the helper with the recursion into lists left out
RECURSIVE sanitize_shallow_lists(_)
sanitize_shallow_lists(value) ==
    IF value.kind = "map"
    THEN Map([k \in (DOMAIN value.entries) \ dangerous_keys |->
                 sanitize_shallow_lists(value.entries[k])])
    ELSE value

RECURSIVE sanitize_mongodb_input(_)
sanitize_mongodb_input(value) ==
    IF value.kind = "map"
    THEN Map([k \in (DOMAIN value.entries) \ dangerous_keys |->
                 sanitize_mongodb_input(value.entries[k])])
    ELSE IF value.kind = "list"
    THEN Lst([i \in DOMAIN value.elems |-> sanitize_mongodb_input(value.elems[i])])
    ELSE value

-----------------------------------------------------------------------------
(* Rate limiter, main.py:131-152 *)

Clients == {"10.0.0.1", "unknown"}

Pruned(times, current_time) ==
    LET cutoff_time == current_time - RATE_WINDOW
    IN  SelectSeq(times, LAMBDA req_time : req_time > cutoff_time)

\* the middleware with the rejected request recorded as well
rate_limit_records_rejected(counts, client_ip, current_time) ==
    LET pruned == Pruned(counts[client_ip], current_time)
    IN  [status |-> IF Len(pruned) >= RATE_LIMIT THEN 429 ELSE 0,
         counts |-> [counts EXCEPT ![client_ip] = Append(pruned, current_time)]]

\* the middleware with the limit compared by > instead of >=
rate_limit_off_by_one(counts, client_ip, current_time) ==
    LET pruned == Pruned(counts[client_ip], current_time)
    IN  IF Len(pruned) > RATE_LIMIT
        THEN [status |-> 429, counts |-> [counts EXCEPT ![client_ip] = pruned]]
        ELSE [status |-> 0,
              counts |-> [counts EXCEPT ![client_ip] = Append(pruned, current_time)]]

\* status 429: HTTPException raised; status 0: call_next(request) is reached
rate_limit_middleware(counts, client_ip, current_time) ==
    LET pruned == Pruned(counts[client_ip], current_time)
    IN  IF Len(pruned) >= RATE_LIMIT
        THEN [status |-> 429, counts |-> [counts EXCEPT ![client_ip] = pruned]]
        ELSE [status |-> 0,
              counts |-> [counts EXCEPT ![client_ip] = Append(pruned, current_time)]]

-----------------------------------------------------------------------------
(* The middleware stack, main.py:81-90, 133-152 and 155-178.  Every        *)
(* app.middleware("http") and app.add_middleware call wraps the stack      *)
(* built by the calls before it, so a request passes, from the outside:    *)
(* ServerErrorMiddleware, TrustedHostMiddleware, CORSMiddleware,           *)
(* rate_limit_middleware, add_security_headers, the exception handlers     *)
(* and the router.                                                         *)

\* the headers set by add_security_headers, main.py:84-89
security_headers ==
    {"X-Content-Type-Options", "X-Frame-Options", "X-XSS-Protection",
     "Strict-Transport-Security", "Content-Security-Policy", "Referrer-Policy"}

\* host names as sequences of labels; "*" stands for the wildcard
allowed_hosts == {<<"localhost">>, <<"127.0.0.1">>, <<"*", "vercel", "app">>}

HostMatches(host, pattern) ==
    \/ host = pattern
    \/ /\ pattern[1] = "*"
       /\ Len(host) >= Len(pattern)
       /\ SubSeq(host, Len(host) - Len(pattern) + 2, Len(host)) = Tail(pattern)

\* TRUE: the request is passed on; FALSE: answered 400 "Invalid host header"
TrustedHostMiddleware(host) == \E pattern \in allowed_hosts : HostMatches(host, pattern)

allow_origins ==
    {"http://localhost:3000", "http://127.0.0.1:3000",
     "https://load-json-data.vercel.app",
     "https://load-json-data-git-main-joelmoran101s-projects.vercel.app",
     "https://load-json-data-joelmoran101s-projects.vercel.app"}
allow_methods == {"GET", "POST", "PUT", "DELETE", "OPTIONS"}

NoOrigin == ""
NoMethod == ""

\* A preflight (OPTIONS with Origin and Access-Control-Request-Method) is
\* answered by the CORS layer itself; every other request is passed on.
CORSMiddleware(method, origin, request_method) ==
    IF origin # NoOrigin /\ method = "OPTIONS" /\ request_method # NoMethod
    THEN [handled |-> TRUE,
          status |-> IF origin \in allow_origins /\ request_method \in allow_methods
                     THEN 200 ELSE 400,
          headers |-> {"Vary", "Access-Control-Allow-Methods",
                       "Access-Control-Allow-Headers",
                       "Access-Control-Allow-Credentials", "Access-Control-Max-Age"}
                      \cup (IF origin \in allow_origins
                            THEN {"Access-Control-Allow-Origin"} ELSE {})]
    ELSE [handled |-> FALSE,
          headers |-> IF origin = NoOrigin THEN {}
                      ELSE {"Access-Control-Allow-Credentials",
                            "Access-Control-Expose-Headers"}
                           \cup (IF origin \in allow_origins
                                 THEN {"Access-Control-Allow-Origin", "Vary"} ELSE {})]

\* The response to one request whose route, once reached, answers
\* endpoint_status.  steps lists the layers that ran, in order; raised is the
\* status of the HTTPException leaving rate_limit_middleware (0: none).  That
\* exception is raised outside the exception handlers of the application, so
\* it reaches ServerErrorMiddleware, which answers 500.
Stack(host, method, origin, request_method, counts, client_ip, current_time, endpoint_status) ==
    LET cors == CORSMiddleware(method, origin, request_method)
        limit == rate_limit_middleware(counts, client_ip, current_time)
    IN  IF ~TrustedHostMiddleware(host)
        THEN [status |-> 400, headers |-> {}, raised |-> 0, counts |-> counts,
              steps |-> <<"TrustedHostMiddleware">>]
        ELSE IF cors.handled
        THEN [status |-> cors.status, headers |-> cors.headers, raised |-> 0,
              counts |-> counts,
              steps |-> <<"TrustedHostMiddleware", "CORSMiddleware">>]
        ELSE IF limit.status # 0
        THEN [status |-> 500, headers |-> {}, raised |-> limit.status,
              counts |-> limit.counts,
              steps |-> <<"TrustedHostMiddleware", "CORSMiddleware",
                          "rate_limit_middleware">>]
        ELSE [status |-> endpoint_status,
              headers |-> security_headers \cup cors.headers, raised |-> 0,
              counts |-> limit.counts,
              steps |-> <<"TrustedHostMiddleware", "CORSMiddleware",
                          "rate_limit_middleware", "add_security_headers",
                          "route">>]

-----------------------------------------------------------------------------
(* CSRF token store, main.py:92-129 and 205-227 *)

Tokens == {"tokA", "tokB", "tokC"}
NoToken == ""            \* the cookie or the header is absent (or empty)
SafeMethods == {"GET", "HEAD", "OPTIONS"}

\* csrf_tokens.get(token, 0)
TokenTimestamp(tokens, token) ==
    IF token \in DOMAIN tokens THEN tokens[token] ELSE 0

\* the dependency with the comparison of cookie and header left out
validate_csrf_no_compare(method, xsrf_token, x_csrf_token, tokens, current_time) ==
    IF method \in SafeMethods THEN [status |-> 0, detail |-> ""]
    ELSE IF xsrf_token = NoToken \/ x_csrf_token = NoToken
    THEN [status |-> 403, detail |-> "CSRF token missing"]
    ELSE IF current_time - TokenTimestamp(tokens, xsrf_token) > TOKEN_TTL
    THEN [status |-> 403, detail |-> "CSRF token expired"]
    ELSE [status |-> 0, detail |-> ""]

\* the dependency with the expiry compared by >= instead of >
validate_csrf_early_expiry(method, xsrf_token, x_csrf_token, tokens, current_time) ==
    IF method \in SafeMethods THEN [status |-> 0, detail |-> ""]
    ELSE IF xsrf_token = NoToken \/ x_csrf_token = NoToken
    THEN [status |-> 403, detail |-> "CSRF token missing"]
    ELSE IF xsrf_token # x_csrf_token
    THEN [status |-> 403, detail |-> "Invalid CSRF token"]
    ELSE IF current_time - TokenTimestamp(tokens, xsrf_token) >= TOKEN_TTL
    THEN [status |-> 403, detail |-> "CSRF token expired"]
    ELSE [status |-> 0, detail |-> ""]

\* the dependency with a token missing from the store taken as just issued
validate_csrf_unknown_fresh(method, xsrf_token, x_csrf_token, tokens, current_time) ==
    IF method \in SafeMethods THEN [status |-> 0, detail |-> ""]
    ELSE IF xsrf_token = NoToken \/ x_csrf_token = NoToken
    THEN [status |-> 403, detail |-> "CSRF token missing"]
    ELSE IF xsrf_token # x_csrf_token
    THEN [status |-> 403, detail |-> "Invalid CSRF token"]
    ELSE IF xsrf_token \in DOMAIN tokens
            /\ current_time - tokens[xsrf_token] > TOKEN_TTL
    THEN [status |-> 403, detail |-> "CSRF token expired"]
    ELSE [status |-> 0, detail |-> ""]

\* status 0: the dependency returns and the route handler runs
validate_csrf(method, xsrf_token, x_csrf_token, tokens, current_time) ==
    IF method \in SafeMethods THEN [status |-> 0, detail |-> ""]
    ELSE IF xsrf_token = NoToken \/ x_csrf_token = NoToken
    THEN [status |-> 403, detail |-> "CSRF token missing"]
    ELSE IF xsrf_token # x_csrf_token
    THEN [status |-> 403, detail |-> "Invalid CSRF token"]
    ELSE IF current_time - TokenTimestamp(tokens, xsrf_token) > TOKEN_TTL
    THEN [status |-> 403, detail |-> "CSRF token expired"]
    ELSE [status |-> 0, detail |-> ""]

\* the store of get_csrf_token after the new token is recorded and the
\* expired entries are deleted
IssueAndSweep(tokens, token, current_time) ==
    LET stored == [t \in (DOMAIN tokens) \cup {token} |->
                      IF t = token THEN current_time ELSE tokens[t]]
        expired == {t \in DOMAIN stored : current_time - stored[t] > TOKEN_TTL}
    IN  [t \in (DOMAIN stored) \ expired |-> stored[t]]

-----------------------------------------------------------------------------
(* Request models, models.py *)

TITLE_MAX == 200
DESCRIPTION_MAX == 1000
CHART_TYPE_MAX == 50
MAX_TRACES == 100

dangerous_chars == {"<", ">", "\"", "'", "&"}

SetMin(S) == CHOOSE x \in S : \A y \in S : x <= y
SetMax(S) == CHOOSE x \in S : \A y \in S : x >= y

\* str.strip() of a string given as its sequence of characters
Strip(chars) ==
    LET keep == {i \in DOMAIN chars : chars[i] # " "}
    IN  IF keep = {} THEN <<>> ELSE SubSeq(chars, SetMin(keep), SetMax(keep))

Field(body, f) == IF f \in DOMAIN body THEN body[f] ELSE Null

IsOptStr(v) == v.kind \in {"str", "null"}
IsOptMap(v) == v.kind \in {"map", "null"}
IsTraces(v) == v.kind = "list" /\ \A i \in DOMAIN v.elems : v.elems[i].kind = "map"

StripField(v) == IF v.kind = "str" THEN Str(Strip(v.chars)) ELSE v
FitsIn(v, n) == v.kind = "str" => Len(v.chars) <= n

\* validate_text_fields, models.py:54-63
TextAllowed(v) ==
    v.kind = "str" => \A i \in DOMAIN v.chars : v.chars[i] \notin dangerous_chars

SimpleFields == {"data", "title", "description"}
PlotlyFields == {"title", "description", "chart_type", "data", "layout"}
LineChart == Str(<<"l", "i", "n", "e">>)

\* SimpleDataCreate(**body).dict(), models.py:140-150
SimpleDataCreate(body) ==
    IF /\ DOMAIN body \subseteq SimpleFields
       /\ Field(body, "data").kind = "map"
       /\ IsOptStr(Field(body, "title"))
       /\ IsOptStr(Field(body, "description"))
    THEN [valid |-> TRUE,
          dict |-> [f \in SimpleFields |->
                      IF f = "data" THEN body[f] ELSE StripField(Field(body, f))]]
    ELSE [valid |-> FALSE]

\* SimpleDataUpdate(**body).dict(), models.py:152-162
SimpleDataUpdate(body) ==
    IF /\ DOMAIN body \subseteq SimpleFields
       /\ IsOptMap(Field(body, "data"))
       /\ IsOptStr(Field(body, "title"))
       /\ IsOptStr(Field(body, "description"))
    THEN [valid |-> TRUE,
          dict |-> [f \in SimpleFields |->
                      IF f = "data" THEN Field(body, f) ELSE StripField(Field(body, f))]]
    ELSE [valid |-> FALSE]

\* PlotlyDataCreate(**body).dict(), models.py:35-73 (the 10 MB limit on the
\* serialized traces is not modelled)
PlotlyDataCreate(body) ==
    LET title == StripField(Field(body, "title"))
        description == StripField(Field(body, "description"))
        chart_type == IF "chart_type" \in DOMAIN body
                      THEN StripField(body["chart_type"]) ELSE LineChart
    IN  IF /\ IsOptStr(title) /\ FitsIn(title, TITLE_MAX) /\ TextAllowed(title)
           /\ IsOptStr(description) /\ FitsIn(description, DESCRIPTION_MAX)
           /\ TextAllowed(description)
           /\ IsOptStr(chart_type) /\ FitsIn(chart_type, CHART_TYPE_MAX)
           /\ IsTraces(Field(body, "data"))
           /\ Len(Field(body, "data").elems) <= MAX_TRACES
           /\ IsOptMap(Field(body, "layout"))
        THEN [valid |-> TRUE,
              dict |-> [f \in PlotlyFields \cup DOMAIN body |->
                          CASE f = "title" -> title
                            [] f = "description" -> description
                            [] f = "chart_type" -> chart_type
                            [] f = "layout" -> Field(body, f)
                            [] OTHER -> body[f]]]
        ELSE [valid |-> FALSE]

\* PlotlyDataUpdate(**body).dict(), models.py:75-86
PlotlyDataUpdate(body) ==
    IF /\ IsOptStr(Field(body, "title"))
       /\ IsOptStr(Field(body, "description"))
       /\ IsOptStr(Field(body, "chart_type"))
       /\ (Field(body, "data").kind = "null" \/ IsTraces(Field(body, "data")))
       /\ IsOptMap(Field(body, "layout"))
    THEN [valid |-> TRUE,
          dict |-> [f \in PlotlyFields \cup DOMAIN body |-> Field(body, f)]]
    ELSE [valid |-> FALSE]

-----------------------------------------------------------------------------
(* The collection, database.py:98-108 (unique index on item_id) and the    *)
(* documents built by models.py:88-105 and 164-174                         *)

Oid(n) == [kind |-> "oid", val |-> n]
StoredFields == {"item_id", "_id", "created_at", "updated_at"}

\* collection.find().sort("item_id", -1).limit(1), then item_id + 1
\* (main.py:325-328 and 459-462)
NextId(coll) ==
    IF coll = {} THEN 1
    ELSE SetMax({d["item_id"].val : d \in coll}) + 1

\* collection.find_one({"item_id": item_id})
FindOne(coll, item_id) == {d \in coll : d["item_id"] = Num(item_id)}

\* SimpleDataInDB(**data_dict).dict(by_alias=True) and
\* PlotlyDataInDB(**chart_dict).dict(by_alias=True): the model dict, the
\* generated item_id, a fresh ObjectId and the two timestamps
InDB(dict, next_id, oid, current_time) ==
    [f \in (DOMAIN dict) \cup StoredFields |->
        CASE f = "item_id" -> Num(next_id)
          [] f = "_id" -> Oid(oid)
          [] f \in {"created_at", "updated_at"} -> Num(current_time)
          [] OTHER -> dict[f]]

\* insert_one on a collection without the unique index on item_id
InsertNoIndex(coll, doc) ==
    IF \E d \in coll : d["_id"] = doc["_id"]
    THEN [ok |-> FALSE, coll |-> coll]
    ELSE [ok |-> TRUE, coll |-> coll \cup {doc}]

\* collection.insert_one(doc): DuplicateKeyError (ok = FALSE) when the unique
\* index on item_id, or the one on _id, already holds the key
InsertOne(coll, doc) ==
    IF \E d \in coll : d["item_id"] = doc["item_id"] \/ d["_id"] = doc["_id"]
    THEN [ok |-> FALSE, coll |-> coll]
    ELSE [ok |-> TRUE, coll |-> coll \cup {doc}]

\* the update document built from every field of the model, None included
UpdateSetWithNulls(dict, current_time) ==
    [f \in (DOMAIN dict) \cup {"updated_at"} |->
        IF f = "updated_at" THEN Num(current_time) ELSE dict[f]]

\* {k: v for k, v in model.dict().items() if v is not None}, then
\* update_data["updated_at"] = datetime.utcnow()   (main.py:366-367, 500-501)
UpdateSet(dict, current_time) ==
    [f \in {k \in DOMAIN dict : dict[k] # Null} \cup {"updated_at"} |->
        IF f = "updated_at" THEN Num(current_time) ELSE dict[f]]

\* a document after {"$set": update}
ApplySet(doc, update) ==
    [f \in (DOMAIN doc) \cup (DOMAIN update) |->
        IF f \in DOMAIN update THEN update[f] ELSE doc[f]]

Workers == {"w1", "w2"}
Idle == [pc |-> "idle"]

-----------------------------------------------------------------------------
(* Bounds of the model *)

MaxTicks == 2           \* clock steps while the token store is exercised
MaxRateTicks == 1       \* clock steps while the rate limiter is exercised
MaxCrudTicks == 1       \* clock steps while the CRUD handlers run
MaxCreates == 2         \* create requests that reach the handler
MaxCsrfCreates == 1     \* the same, while the token store is exercised
MaxUpdateDocs == 1      \* the same, while the updates are exercised
MaxLightRequests == 2   \* requests of the client that stays under the limit
MaxDepth == 2           \* nesting depth of the sanitizer's inputs
MaxRestartTicks == 1    \* clock steps while restarts are exercised

HeavyClient == "10.0.0.1"

-----------------------------------------------------------------------------
(* Initial state: the module-level objects of main.py after import, the    *)
(* collection empty with its unique index created by lifespan()            *)

NoRequest == [op |-> "none"]

InitServer ==
    /\ now = StartTime
    /\ request_counts = [c \in Clients |-> <<>>]
    /\ csrf_tokens = [t \in {} |-> 0]
    /\ collection = {}
    /\ pending = [w \in Workers |-> Idle]
    /\ last = NoRequest
    /\ issued_at = [t \in {} |-> 0]
    /\ oid_seq = 0
    /\ assigned = {}
    /\ last_admit = [c \in Clients |-> -1]
    /\ rejected_since = [c \in Clients |-> FALSE]

Init ==
    /\ InitServer
    /\ san_in = Null /\ san_out = Null /\ san_twice = Null /\ san_pc = "unused"

-----------------------------------------------------------------------------
(* The clock *)

Tick(deltas, horizon) ==
    /\ \E d \in deltas :
          /\ now + d <= StartTime + horizon
          /\ now' = now + d
    /\ UNCHANGED <<limiterVars, tokenVars, storeVars, last, sanVars>>

-----------------------------------------------------------------------------
(* GET / through rate_limit_middleware, main.py:133-152 and 230-238 *)

LocalHost == <<"localhost">>

Request(client_ip) ==
    /\ client_ip = HeavyClient \/ Len(request_counts[client_ip]) < MaxLightRequests
    /\ LET r == Stack(LocalHost, "GET", NoOrigin, NoMethod,
                      request_counts, client_ip, now, 200)
       IN  /\ request_counts' = r.counts
           /\ last' = [op |-> "root", client |-> client_ip,
                       status |-> r.status, raised |-> r.raised,
                       after_rejects |-> rejected_since[client_ip]]
           /\ last_admit' = IF r.raised = 429 THEN last_admit
                            ELSE [last_admit EXCEPT ![client_ip] = now]
           /\ rejected_since' = [rejected_since EXCEPT ![client_ip] = (r.raised = 429)]
    /\ UNCHANGED <<now, tokenVars, storeVars, sanVars>>

-----------------------------------------------------------------------------
(* Any request through the stack.  The routes: GET / (root), POST /data/   *)
(* (create_data, sent here without CSRF tokens), OPTIONS / (no route       *)
(* accepts the method) and GET of a path without a route.                  *)

Routes == {"root", "create_data", "options", "unmatched"}

Method(route) ==
    CASE route = "root" -> "GET"
      [] route = "create_data" -> "POST"
      [] route = "options" -> "OPTIONS"
      [] route = "unmatched" -> "GET"

\* the status answered by the router, the dependencies and the handler
Endpoint(route, tokens, current_time) ==
    CASE route = "root" -> 200
      [] route = "create_data" ->
            validate_csrf("POST", NoToken, NoToken, tokens, current_time).status
      [] route = "options" -> 405
      [] route = "unmatched" -> 404

Serve(host, origin, request_method, client_ip, route) ==
    /\ client_ip = HeavyClient \/ Len(request_counts[client_ip]) < MaxLightRequests
    /\ LET r == Stack(host, Method(route), origin, request_method,
                      request_counts, client_ip, now,
                      Endpoint(route, csrf_tokens, now))
           limited == "rate_limit_middleware" \in {r.steps[i] : i \in DOMAIN r.steps}
       IN  /\ request_counts' = r.counts
           /\ last' = [op |-> "serve", client |-> client_ip, route |-> route,
                       host |-> host, origin |-> origin,
                       request_method |-> request_method,
                       status |-> r.status, raised |-> r.raised,
                       headers |-> r.headers, steps |-> r.steps]
           /\ last_admit' = IF limited /\ r.raised = 0
                            THEN [last_admit EXCEPT ![client_ip] = now]
                            ELSE last_admit
           /\ rejected_since' = IF limited
                                THEN [rejected_since EXCEPT ![client_ip] = (r.raised # 0)]
                                ELSE rejected_since
    /\ UNCHANGED <<now, tokenVars, storeVars, sanVars>>

-----------------------------------------------------------------------------
(* GET /csrf-token, main.py:206-227.  secrets.token_hex(32) draws a token  *)
(* that was never drawn before.                                            *)

get_csrf_token(pool) ==
    /\ \E token \in pool \ DOMAIN issued_at :
          /\ csrf_tokens' = IssueAndSweep(csrf_tokens, token, now)
          /\ issued_at' = [t \in (DOMAIN issued_at) \cup {token} |->
                              IF t = token THEN now ELSE issued_at[t]]
          /\ last' = [op |-> "get_csrf_token", phase |-> "request", status |-> 200,
                      token |-> token]
    /\ UNCHANGED <<now, limiterVars, storeVars, sanVars>>

-----------------------------------------------------------------------------
(* POST /data/ and POST /plotly/, main.py:320-351 and 454-485.  The read   *)
(* of the maximum item_id and the insert are two calls to the storage      *)
(* service; another creator may run between them.                          *)

CreateOps == {"create_data", "create_plotly_chart"}
UpdateOps == {"update_data", "update_plotly_chart"}
DeleteOps == {"delete_data", "delete_plotly_chart"}
MutatingOps == CreateOps \cup UpdateOps \cup DeleteOps

CreateModel(op, body) ==
    IF op = "create_data" THEN SimpleDataCreate(body) ELSE PlotlyDataCreate(body)

UpdateModel(op, body) ==
    IF op = "update_data" THEN SimpleDataUpdate(body) ELSE PlotlyDataUpdate(body)

Arrival(op, cookie, header, body, item_id, status, ran) ==
    [op |-> op, phase |-> "request", status |-> status,
     cookie |-> cookie, header |-> header, body |-> body,
     item_id |-> item_id, ran |-> ran]

InFlight == Cardinality({w \in Workers : pending[w] # Idle})

CreateBegin(w, op, cookie, header, body, budget) ==
    /\ pending[w] = Idle
    /\ oid_seq + InFlight < budget
    /\ LET csrf == validate_csrf("POST", cookie, header, csrf_tokens, now)
           model == CreateModel(op, body)
       IN  IF csrf.status # 0
           THEN /\ last' = Arrival(op, cookie, header, body, 0, csrf.status, FALSE)
                /\ UNCHANGED pending
           ELSE IF ~model.valid
           THEN /\ last' = Arrival(op, cookie, header, body, 0, 422, FALSE)
                /\ UNCHANGED pending
           ELSE /\ last' = Arrival(op, cookie, header, body, 0, 0, TRUE)
                /\ pending' = [pending EXCEPT ![w] =
                                  [pc |-> "insert", op |-> op, dict |-> model.dict,
                                   next_id |-> NextId(collection)]]
    /\ UNCHANGED <<now, limiterVars, tokenVars, collection, oid_seq, assigned, sanVars>>

CreateInsert(w) ==
    /\ pending[w] # Idle
    /\ LET p == pending[w]
           doc == InDB(p.dict, p.next_id, oid_seq + 1, now)
           res == InsertOne(collection, doc)
       IN  /\ collection' = res.coll
           /\ assigned' = IF res.ok THEN assigned \cup {p.next_id} ELSE assigned
           /\ last' = [op |-> p.op, phase |-> "insert",
                       status |-> IF res.ok THEN 200 ELSE 400,
                       item_id |-> p.next_id, ran |-> TRUE]
    /\ oid_seq' = oid_seq + 1
    /\ pending' = [pending EXCEPT ![w] = Idle]
    /\ UNCHANGED <<now, limiterVars, tokenVars, sanVars>>

-----------------------------------------------------------------------------
(* PUT /data/{item_id} and PUT /plotly/{item_id}, main.py:353-390, 487-524 *)

\* the response status and the collection after update_one
UpdateResult(coll, item_id, dict, current_time) ==
    LET existing == FindOne(coll, item_id)
        doc == CHOOSE d \in existing : TRUE
        new == ApplySet(doc, UpdateSet(dict, current_time))
    IN  IF existing = {} THEN [status |-> 404, coll |-> coll]
        ELSE IF new["_id"] # doc["_id"]
                \/ \E d \in coll \ {doc} : d["item_id"] = new["item_id"]
        THEN [status |-> 500, coll |-> coll]      \* WriteError, DuplicateKeyError
        ELSE IF new = doc THEN [status |-> 400, coll |-> coll]  \* modified_count == 0
        ELSE [status |-> 200, coll |-> (coll \ {doc}) \cup {new}]

UpdateItem(op, item_id, cookie, header, body) ==
    /\ LET csrf == validate_csrf("PUT", cookie, header, csrf_tokens, now)
           model == UpdateModel(op, body)
           res == UpdateResult(collection, item_id, model.dict, now)
       IN  IF csrf.status # 0
           THEN /\ last' = Arrival(op, cookie, header, body, item_id, csrf.status, FALSE)
                /\ UNCHANGED collection
           ELSE IF ~model.valid
           THEN /\ last' = Arrival(op, cookie, header, body, item_id, 422, FALSE)
                /\ UNCHANGED collection
           ELSE /\ last' = Arrival(op, cookie, header, body, item_id, res.status, TRUE)
                /\ collection' = res.coll
    /\ UNCHANGED <<now, limiterVars, tokenVars, pending, oid_seq, assigned, sanVars>>

-----------------------------------------------------------------------------
(* DELETE /data/{item_id} and DELETE /plotly/{item_id}, main.py:392-412,   *)
(* 526-546                                                                 *)

DeleteItem(op, item_id, cookie, header) ==
    /\ LET csrf == validate_csrf("DELETE", cookie, header, csrf_tokens, now)
           found == FindOne(collection, item_id)
       IN  IF csrf.status # 0
           THEN /\ last' = Arrival(op, cookie, header, Null, item_id, csrf.status, FALSE)
                /\ UNCHANGED collection
           ELSE IF found = {}
           THEN /\ last' = Arrival(op, cookie, header, Null, item_id, 404, TRUE)
                /\ UNCHANGED collection
           ELSE /\ last' = Arrival(op, cookie, header, Null, item_id, 200, TRUE)
                /\ collection' = collection \ {CHOOSE d \in found : TRUE}
    /\ UNCHANGED <<now, limiterVars, tokenVars, pending, oid_seq, assigned, sanVars>>

-----------------------------------------------------------------------------
(* GET /data/{item_id} and GET /plotly/{item_id}, main.py:300-318, 433-452 *)

ReadOps == {"read_data", "read_plotly_chart"}

HexDigits == <<"0", "1", "2", "3", "4", "5", "6", "7",
               "8", "9", "a", "b", "c", "d", "e", "f">>

\* str(document["_id"]): the hexadecimal text of the ObjectId
ObjectIdStr(oid) == Str(<<HexDigits[(oid.val % 16) + 1]>>)

SimpleResponseFields ==
    SimpleFields \cup {"item_id", "id", "created_at", "updated_at"}

\* SimpleDataResponse(**document), models.py:176-184.  The class inherits
\* extra="forbid" and str_strip_whitespace from SimpleDataBase (127-138).
SimpleDataResponse(document) ==
    IF /\ DOMAIN document \subseteq SimpleResponseFields
       /\ {"item_id", "data", "id", "created_at", "updated_at"} \subseteq DOMAIN document
       /\ document["item_id"].kind = "int"
       /\ document["data"].kind = "map"
       /\ IsOptStr(Field(document, "title"))
       /\ IsOptStr(Field(document, "description"))
       /\ document["id"].kind = "str"
       /\ document["created_at"].kind = "int"
       /\ document["updated_at"].kind = "int"
    THEN [valid |-> TRUE,
          dict |-> [f \in SimpleResponseFields |-> StripField(Field(document, f))]]
    ELSE [valid |-> FALSE]

\* PlotlyDataResponse(**document), models.py:107-124 (extra="allow")
PlotlyDataResponse(document) ==
    IF /\ {"item_id", "data", "id", "created_at", "updated_at"} \subseteq DOMAIN document
       /\ document["item_id"].kind = "int"
       /\ IsTraces(document["data"])
       /\ IsOptStr(Field(document, "title"))
       /\ IsOptStr(Field(document, "description"))
       /\ IsOptStr(Field(document, "chart_type"))
       /\ IsOptMap(Field(document, "layout"))
       /\ document["id"].kind = "str"
       /\ document["created_at"].kind = "int"
       /\ document["updated_at"].kind = "int"
    THEN [valid |-> TRUE,
          dict |-> [f \in PlotlyFields \cup DOMAIN document |->
                      IF f = "chart_type" /\ f \notin DOMAIN document
                      THEN LineChart ELSE Field(document, f)]]
    ELSE [valid |-> FALSE]

\* document["id"] = str(document["_id"])
WithId(document) ==
    [f \in (DOMAIN document) \cup {"id"} |->
        IF f = "id" THEN ObjectIdStr(document["_id"]) ELSE document[f]]

\* document["id"] = str(document.pop("_id"))
WithIdPopped(document) ==
    [f \in ((DOMAIN document) \cup {"id"}) \ {"_id"} |->
        IF f = "id" THEN ObjectIdStr(document["_id"]) ELSE document[f]]

\* the response model built by the handler from the document it found
ReadModel(op, document) ==
    IF op = "read_data" THEN SimpleDataResponse(WithId(document))
    ELSE PlotlyDataResponse(WithIdPopped(document))

\* A pydantic ValidationError raised by the response model goes to
\* validation_exception_handler (main.py:181-187), which answers 422, or 500
\* when exc.errors() holds a value JSONResponse cannot serialize.
ReadItem(op, item_id) ==
    /\ LET found == FindOne(collection, item_id)
           document == CHOOSE d \in found : TRUE
           model == ReadModel(op, document)
       IN  IF found = {}
           THEN last' = [op |-> op, phase |-> "request", status |-> 404,
                         item_id |-> item_id, ran |-> TRUE]
           ELSE IF model.valid
           THEN last' = [op |-> op, phase |-> "request", status |-> 200,
                         item_id |-> item_id, ran |-> TRUE, response |-> model.dict]
           ELSE \E status \in {422, 500} :
                    last' = [op |-> op, phase |-> "request", status |-> status,
                             item_id |-> item_id, ran |-> TRUE]
    /\ UNCHANGED <<now, limiterVars, tokenVars, storeVars, sanVars>>

-----------------------------------------------------------------------------
(* A restart of the server process: the module-level dictionaries of       *)
(* main.py:93 and 132 are created empty again and the requests in progress *)
(* are lost; the collection lives in the storage service and stays.        *)

Restart ==
    /\ csrf_tokens' = [t \in {} |-> 0]
    /\ request_counts' = [c \in Clients |-> <<>>]
    /\ pending' = [w \in Workers |-> Idle]
    /\ last' = [op |-> "restart"]
    /\ UNCHANGED <<now, collection, oid_seq, assigned, issued_at,
                   last_admit, rejected_since, sanVars>>

-----------------------------------------------------------------------------
(* The sanitizer applied to one value, then to its own result *)

SanKeys == {"x", "$ne"}
ListLens == 0..2

RECURSIVE JsonValues(_)
JsonValues(depth) ==
    IF depth = 0 THEN {Num(1)}
    ELSE LET sub == JsonValues(depth - 1)
         IN  {Num(1)}
             \cup {Map(f) : f \in UNION {[K -> sub] : K \in SUBSET SanKeys}}
             \cup {Lst(e) : e \in UNION {[1..n -> sub] : n \in ListLens}}

InitSan ==
    /\ InitServer
    /\ san_in \in JsonValues(MaxDepth)
    /\ san_out = Null /\ san_twice = Null /\ san_pc = "input"

Sanitize ==
    /\ san_pc = "input"
    /\ san_out' = sanitize_mongodb_input(san_in)
    /\ san_pc' = "once"
    /\ UNCHANGED <<now, limiterVars, tokenVars, storeVars, last, san_in, san_twice>>

SanitizeAgain ==
    /\ san_pc = "once"
    /\ san_twice' = sanitize_mongodb_input(san_out)
    /\ san_pc' = "twice"
    /\ UNCHANGED <<now, limiterVars, tokenVars, storeVars, last, san_in, san_out>>

NextSan == Sanitize \/ SanitizeAgain

SpecSan == InitSan /\ [][NextSan]_vars

-----------------------------------------------------------------------------
(* The rate limiter under two clients *)

RateDeltas == {RATE_WINDOW - 1, RATE_WINDOW, RATE_WINDOW + 1}

NextRate ==
    \/ Tick(RateDeltas, MaxRateTicks * (RATE_WINDOW + 1))
    \/ \E c \in Clients : Request(c)

SpecRate == Init /\ [][NextRate]_vars

-----------------------------------------------------------------------------
(* Requests of every shape through the stack, at one clock reading *)

VercelHost == <<"fast-api-backend", "vercel", "app">>
OtherHost == <<"evil", "example">>

\* <<host, origin, Access-Control-Request-Method, route>>
StackRequests ==
    {<<LocalHost, NoOrigin, NoMethod, "root">>,
     <<VercelHost, "http://localhost:3000", NoMethod, "root">>,
     <<OtherHost, NoOrigin, NoMethod, "root">>,
     <<LocalHost, "http://localhost:3000", "POST", "options">>,
     <<LocalHost, "https://evil.example", "POST", "options">>,
     <<LocalHost, NoOrigin, NoMethod, "options">>,
     <<LocalHost, NoOrigin, NoMethod, "create_data">>,
     <<LocalHost, NoOrigin, NoMethod, "unmatched">>}

NextStack ==
    \E req \in StackRequests, c \in Clients :
        Serve(req[1], req[2], req[3], c, req[4])

SpecStack == Init /\ [][NextStack]_vars

-----------------------------------------------------------------------------
(* Request bodies *)

SimpleCreateBodies ==
    { [data |-> Map([x |-> Num(1)])],
      [data |-> Map([q |-> Lst(<<Map([k \in {"$where"} |-> Num(1)])>>)]),
       title |-> Str(<<"<", "a">>)] }

PlotlyCreateBodies ==
    { [data |-> Lst(<<Map([y |-> Num(1)])>>), title |-> Str(<<" ", "a">>)],
      [data |-> Lst(<<>>), description |-> Str(<<"&">>)] }

SimpleUpdateBodies ==
    { [title |-> Str(<<"b", " ">>)],
      [description |-> Str(<<"<">>), data |-> Null] }

PlotlyUpdateBodies ==
    { [title |-> Str(<<">">>), note |-> Num(1)] }

CreateBodies(op) ==
    IF op = "create_data" THEN SimpleCreateBodies ELSE PlotlyCreateBodies

\* update payloads that name no new value: {} and {"title": null}
NoChangeBodies == {[f \in {} |-> Null], [f \in {"title"} |-> Null]}

UpdateBodies(op) ==
    IF op = "update_data" THEN SimpleUpdateBodies ELSE PlotlyUpdateBodies

ItemIds == 1..MaxCreates

-----------------------------------------------------------------------------
(* The CRUD handlers behind the CSRF dependency *)

CrudTokens == {"tokA"}
CrudPairs == {<<"tokA", "tokA">>}

Next ==
    \/ Tick({1}, MaxCrudTicks)
    \/ get_csrf_token(CrudTokens)
    \/ \E op \in CreateOps, tk \in CrudPairs :
          \E body \in CreateBodies(op) :
             CreateBegin("w1", op, tk[1], tk[2], body, MaxCreates)
    \/ CreateInsert("w1")
    \/ \E op \in UpdateOps, id \in ItemIds, tk \in CrudPairs :
          \E body \in UpdateBodies(op) : UpdateItem(op, id, tk[1], tk[2], body)
    \/ \E id \in ItemIds, tk \in CrudPairs :
          DeleteItem("delete_data", id, tk[1], tk[2])
    \/ \E op \in UpdateOps, id \in ItemIds, tk \in CrudPairs :
          \E body \in NoChangeBodies : UpdateItem(op, id, tk[1], tk[2], body)
    \/ \E op \in ReadOps, id \in ItemIds : ReadItem(op, id)

Spec == Init /\ [][Next]_vars

-----------------------------------------------------------------------------
(* Creators that interleave between the read of the maximum item_id and    *)
(* the insert                                                              *)

RaceBody(op) ==
    IF op = "create_data" THEN [data |-> Map([x |-> Num(1)])]
    ELSE [data |-> Lst(<<Map([y |-> Num(1)])>>)]

NextRace ==
    \/ Tick({1}, MaxCrudTicks)
    \/ get_csrf_token(CrudTokens)
    \/ \E w \in Workers, op \in CreateOps, tk \in CrudPairs :
          CreateBegin(w, op, tk[1], tk[2], RaceBody(op), MaxCreates)
    \/ \E w \in Workers : CreateInsert(w)
    \/ \E id \in ItemIds, tk \in CrudPairs :
          DeleteItem("delete_plotly_chart", id, tk[1], tk[2])

SpecRace == Init /\ [][NextRace]_vars

-----------------------------------------------------------------------------
(* Updates of the records of one creator *)

NextUpdate ==
    \/ Tick({1}, MaxCrudTicks)
    \/ get_csrf_token(CrudTokens)
    \/ \E op \in CreateOps, tk \in CrudPairs :
          CreateBegin("w1", op, tk[1], tk[2], RaceBody(op), MaxUpdateDocs)
    \/ CreateInsert("w1")
    \/ \E op \in UpdateOps, id \in 1..MaxUpdateDocs, tk \in CrudPairs :
          \E body \in UpdateBodies(op) : UpdateItem(op, id, tk[1], tk[2], body)

SpecUpdate == Init /\ [][NextUpdate]_vars

-----------------------------------------------------------------------------
(* Creates, reads, updates and deletes of the records of one creator, with *)
(* update payloads that name item_id or created_at                         *)

IdentityBodies ==
    {[f \in {"item_id"} |-> Num(1)],
     [f \in {"created_at"} |-> Num(0)],
     [f \in {"title"} |-> Str(<<"t">>)]}

NextRecords ==
    \/ get_csrf_token(CrudTokens)
    \/ \E op \in CreateOps, tk \in CrudPairs :
          CreateBegin("w1", op, tk[1], tk[2], RaceBody(op), MaxCreates)
    \/ CreateInsert("w1")
    \/ \E op \in UpdateOps, id \in ItemIds, tk \in CrudPairs :
          \E body \in IdentityBodies : UpdateItem(op, id, tk[1], tk[2], body)
    \/ \E op \in DeleteOps, id \in ItemIds, tk \in CrudPairs :
          DeleteItem(op, id, tk[1], tk[2])
    \/ \E op \in ReadOps, id \in ItemIds : ReadItem(op, id)

SpecRecords == Init /\ [][NextRecords]_vars

-----------------------------------------------------------------------------
(* The token store over more than 24 hours *)

CsrfDeltas == {TOKEN_TTL - 1, TOKEN_TTL, TOKEN_TTL + 1}
CsrfPairs == {<<"tokA", "tokA">>, <<"tokB", "tokB">>, <<"tokA", "tokB">>,
              <<"tokC", "tokC">>, <<"tokA", NoToken>>, <<NoToken, "tokA">>,
              <<NoToken, NoToken>>}
CsrfBody == [data |-> Map([x |-> Num(1)])]

NextCsrf ==
    \/ Tick(CsrfDeltas, MaxTicks * (TOKEN_TTL + 1))
    \/ get_csrf_token(Tokens)
    \/ \E tk \in CsrfPairs : CreateBegin("w1", "create_data", tk[1], tk[2], CsrfBody, MaxCsrfCreates)
    \/ CreateInsert("w1")
    \/ \E tk \in CsrfPairs : DeleteItem("delete_data", 1, tk[1], tk[2])

SpecCsrf == Init /\ [][NextCsrf]_vars

-----------------------------------------------------------------------------
(* Mutating requests that carry one token as cookie and header, with       *)
(* tokens issued, swept, lost in a restart, or never issued ("tokC")       *)

IssuedTokens == {"tokA", "tokB"}
RestartBody == [title |-> Str(<<"t">>)]

NextRestart ==
    \/ Tick(CsrfDeltas, MaxRestartTicks * (TOKEN_TTL + 1))
    \/ get_csrf_token(IssuedTokens)
    \/ Restart
    \/ \E tk \in Tokens :
          CreateBegin("w1", "create_data", tk, tk, CsrfBody, MaxCsrfCreates)
    \/ CreateInsert("w1")
    \/ \E tk \in Tokens : UpdateItem("update_data", 1, tk, tk, RestartBody)
    \/ \E tk \in Tokens : DeleteItem("delete_data", 1, tk, tk)

SpecRestart == Init /\ [][NextRestart]_vars

-----------------------------------------------------------------------------
(* Properties of the sanitizer *)

RECURSIVE HasDangerousKey(_)
HasDangerousKey(value) ==
    IF value.kind = "map"
    THEN \E k \in DOMAIN value.entries :
            k \in dangerous_keys \/ HasDangerousKey(value.entries[k])
    ELSE IF value.kind = "list"
    THEN \E i \in DOMAIN value.elems : HasDangerousKey(value.elems[i])
    ELSE FALSE

\* out is value with the deny-listed keys removed and nothing else changed
RECURSIVE IsStripped(_, _)
IsStripped(value, out) ==
    IF value.kind = "map"
    THEN /\ out.kind = "map"
         /\ DOMAIN out.entries = {k \in DOMAIN value.entries : k \notin dangerous_keys}
         /\ \A k \in DOMAIN out.entries : IsStripped(value.entries[k], out.entries[k])
    ELSE IF value.kind = "list"
    THEN /\ out.kind = "list"
         /\ Len(out.elems) = Len(value.elems)
         /\ \A i \in DOMAIN value.elems : IsStripped(value.elems[i], out.elems[i])
    ELSE out = value

\* C8: sanitize_mongodb_input returns its input with every deny-listed key
\* (and its value) removed from every map at every depth, every other key,
\* value and list position kept, scalars returned as they are; applied to
\* its own result it changes nothing.
C8_SanitizerResult ==
    /\ san_pc \in {"once", "twice"} =>
          /\ IsStripped(san_in, san_out)
          /\ ~HasDangerousKey(san_out)
          /\ (~HasDangerousKey(san_in) => san_out = san_in)
    /\ san_pc = "twice" => san_twice = san_out

C8_Witness ==
    /\ san_pc = "twice"
    /\ san_in.kind = "list"
    /\ Len(san_in.elems) = 2
    /\ san_in.elems[1].kind = "map"
    /\ DOMAIN san_in.elems[1].entries = {"x", "$ne"}
    /\ san_in.elems[2].kind = "int"
    /\ san_out = Lst(<<Map([k \in {"x"} |-> Num(1)]), Num(1)>>)

-----------------------------------------------------------------------------
(* Properties of the rate limiter (under SpecRate every step that leaves   *)
(* the clock alone is one request, of client last'.client)                 *)

\* the recorded timestamps that lie in the 60 seconds ending at instant t
Trailing(times, t) ==
    SelectSeq(times, LAMBDA ts : t - ts < RATE_WINDOW /\ ts <= t)

WindowEnds(c) == {now} \cup {request_counts[c][i] : i \in DOMAIN request_counts[c]}

\* C1: a request is rejected exactly when its client already has 100 or more
\* recorded timestamps within the trailing 60 seconds; a rejected request is
\* not recorded, an admitted one appends its timestamp, other clients'
\* records are not touched; so no client ever has more than 100 recorded
\* timestamps inside a trailing 60-second window.
C1_Admission ==
    /\ [](\A c \in Clients : \A t \in WindowEnds(c) :
             Len(Trailing(request_counts[c], t)) <= RATE_LIMIT)
    /\ [][now' = now =>
            LET c == last'.client
                recent == Trailing(request_counts[c], now)
            IN  /\ (last'.raised = 429) <=> (Len(recent) >= RATE_LIMIT)
                /\ last'.raised = 429 => request_counts'[c] = recent
                /\ last'.raised # 429 => request_counts'[c] = Append(recent, now)
                /\ \A o \in Clients \ {c} : request_counts'[o] = request_counts[o]
         ]_vars

\* a client is rejected with a full window while the other client, at the
\* same instant, has been admitted
C1_Witness ==
    /\ last # NoRequest
    /\ last.client = HeavyClient
    /\ last.raised = 429
    /\ Len(request_counts[HeavyClient]) = RATE_LIMIT
    /\ request_counts[HeavyClient][1] < request_counts[HeavyClient][RATE_LIMIT]
    /\ Len(request_counts["unknown"]) = 1
    /\ last_admit["unknown"] = now

\* C9: with 100 admitted requests of one client in the last 60 seconds its
\* next request is rejected (HTTPException 429 raised), and a request made
\* 61 seconds or more after the client's last admitted request is admitted,
\* whatever rejected requests the client sent in between.
C9_WindowRecovery ==
    [][now' = now =>
          LET c == last'.client
          IN  /\ Len(Trailing(request_counts[c], now)) >= RATE_LIMIT
                    => last'.raised = 429
              /\ (last_admit[c] >= 0 /\ now - last_admit[c] >= RATE_WINDOW + 1)
                    => last'.status = 200
      ]_vars

\* admitted again 61 seconds after a full window, with rejected requests
\* since the last admission
C9_Witness ==
    /\ last # NoRequest
    /\ last.client = HeavyClient
    /\ last.status = 200
    /\ last.after_rejects
    /\ now = StartTime + RATE_WINDOW + 1
    /\ request_counts[HeavyClient] = <<now>>

-----------------------------------------------------------------------------
(* Properties of the CSRF dependency and of the token store                *)

\* the step is the arrival of a mutating request, recorded in last'
MutatingArrival ==
    /\ now' = now
    /\ last'.op \in MutatingOps
    /\ last'.phase = "request"

C10_TokenLifetime ==
    /\ [][(MutatingArrival /\ last'.cookie = last'.header
              /\ last'.cookie \in DOMAIN issued_at)
            => ((last'.status # 403) <=> (now - issued_at[last'.cookie] <= TOKEN_TTL))
         ]_vars
    /\ [](\A t \in DOMAIN issued_at :
             now - issued_at[t] <= TOKEN_TTL
                => (t \in DOMAIN csrf_tokens /\ csrf_tokens[t] = issued_at[t]))
    /\ []((last.op = "get_csrf_token" /\ issued_at[last.token] = now)
             => /\ last.token \in DOMAIN csrf_tokens
                /\ \A t \in DOMAIN csrf_tokens : now - csrf_tokens[t] <= TOKEN_TTL)

\* a token refused after a later issue swept it from the store, while the
\* later token is still accepted
C10_Witness ==
    /\ last # NoRequest
    /\ last.op = "delete_data"
    /\ last.status = 403
    /\ last.cookie = last.header
    /\ last.cookie \in DOMAIN issued_at
    /\ last.cookie \notin DOMAIN csrf_tokens
    /\ \E t \in DOMAIN csrf_tokens : now - csrf_tokens[t] = TOKEN_TTL

-----------------------------------------------------------------------------
(* Properties of the CRUD handlers                                         *)

\* the step is the insert of a create operation, recorded in last'
InsertStep == oid_seq' = oid_seq + 1

\* C3: the item_id a successful create assigns strictly exceeds every
\* item_id assigned before in the collection, deleted records included
\* (one creator at a time).
C3_NeverReused ==
    [][(InsertStep /\ last'.status = 200)
          => \A i \in assigned : last'.item_id > i]_vars

\* C4: when two creates have read the same maximum item_id, the insert that
\* comes second finds the key taken: it is answered 400, adds no record and
\* is not tried again, while the first adds its record; no two records of
\* the collection ever share an item_id.
C4_ConcurrentCreators ==
    /\ [](\A d1 \in collection : \A d2 \in collection :
             d1["item_id"] = d2["item_id"] => d1 = d2)
    /\ [][InsertStep =>
            \E w \in Workers :
               LET p == pending[w]
                   taken == FindOne(collection, p.next_id) # {}
               IN  /\ p # Idle /\ pending'[w] = Idle
                   /\ \A o \in Workers \ {w} : pending'[o] = pending[o]
                   /\ taken => /\ last'.status = 400
                               /\ collection' = collection
                   /\ ~taken => /\ last'.status = 200
                                /\ Cardinality(collection') = Cardinality(collection) + 1
                                /\ FindOne(collection', p.next_id) # {}
                   /\ \A o \in Workers \ {w} :
                         (pending[o] # Idle /\ pending[o].next_id = p.next_id)
                            => FindOne(collection', p.next_id) # {}
         ]_vars

\* both creators read the same maximum; one record was added, the other
\* insert was answered 400
C4_Witness ==
    /\ last # NoRequest
    /\ last.phase = "insert"
    /\ last.status = 400
    /\ last.item_id = 1
    /\ oid_seq = 2
    /\ Cardinality(collection) = 1
    /\ \A w \in Workers : pending[w] = Idle

\* the step is a successful update, recorded in last'
UpdateDone ==
    /\ now' = now
    /\ last'.op \in UpdateOps
    /\ last'.phase = "request"
    /\ last'.status = 200

\* the value of field f that the update model hands to the store
Submitted(op, body, f) ==
    IF op = "update_data" /\ f \in {"title", "description"}
    THEN StripField(body[f]) ELSE body[f]

\* C5: a successful update replaces exactly the fields that are present and
\* non-null in the payload (by the payload's validated value), leaves every
\* other stored field, and every other record, as it was, and sets
\* updated_at to the current time.
C5_PartialUpdate ==
    [][UpdateDone =>
          LET body == last'.body
              given == {f \in DOMAIN body : body[f] # Null}
              old == CHOOSE d \in collection : d["item_id"] = Num(last'.item_id)
              new == CHOOSE d \in collection' : d["item_id"] = Num(last'.item_id)
          IN  /\ FindOne(collection, last'.item_id) = {old}
              /\ FindOne(collection', last'.item_id) = {new}
              /\ collection' \ {new} = collection \ {old}
              /\ DOMAIN new = (DOMAIN old) \cup given
              /\ \A f \in given \ {"updated_at"} :
                    new[f] = Submitted(last'.op, body, f)
              /\ new["updated_at"] = Num(now)
              /\ \A f \in (DOMAIN old) \ (given \cup {"updated_at"}) :
                    new[f] = old[f]
      ]_vars

\* a chart update with a title and an extra field, one clock step after the
\* record was created: data, created_at and the identifiers are kept
C5_Witness ==
    /\ last # NoRequest
    /\ last.op = "update_plotly_chart"
    /\ last.status = 200
    /\ \E d \in collection :
          /\ d["item_id"] = Num(last.item_id)
          /\ d["title"] = Str(<<">">>)
          /\ d["note"] = Num(1)
          /\ d["data"] # Null
          /\ d["updated_at"] = Num(now)
          /\ d["created_at"] = Num(StartTime)
          /\ now = StartTime + 1

\* C6: no stored record has a title or a description that contains one of
\* the characters < > " ' & (the validation is applied to every create and
\* every update payload before it is stored).
C6_NoDangerousText ==
    \A d \in collection : TextAllowed(d["title"]) /\ TextAllowed(d["description"])

\* C7: no stored document contains a deny-listed key at any depth (the
\* sanitizer is applied to every payload before it is stored).
C7_NoDangerousKeyStored ==
    \A d \in collection : \A f \in DOMAIN d : ~HasDangerousKey(d[f])

-----------------------------------------------------------------------------
(* Properties of the read handlers *)

\* the records stored by create_data (the generic variant has no chart_type)
GenericRecords == {d \in collection : "chart_type" \notin DOMAIN d}

\* C11: after a successful create of a generic record, GET /data/{item_id}
\* with the assigned item_id succeeds and returns the record with item_id,
\* title, description and data as stored, the internal identifier appearing
\* only as a string under id.
C11_CreateReadRoundTrip ==
    [][(/\ now' = now
        /\ last' # last
        /\ last'.op = "read_data"
        /\ \E d \in GenericRecords : d["item_id"] = Num(last'.item_id))
       => /\ last'.status = 200
          /\ LET d == CHOOSE r \in GenericRecords : r["item_id"] = Num(last'.item_id)
             IN  /\ \A f \in {"item_id", "title", "description", "data"} :
                       last'.response[f] = d[f]
                 /\ last'.response["id"] = ObjectIdStr(d["_id"])
                 /\ "_id" \notin DOMAIN last'.response
      ]_vars

-----------------------------------------------------------------------------
(* Properties of the update handlers: status codes *)

\* the payload fields of an update that differ from the stored record
ChangedFields(op, body, d) ==
    LET dict == UpdateModel(op, body).dict
    IN  {f \in DOMAIN dict :
            dict[f] # Null /\ (f \notin DOMAIN d \/ d[f] # dict[f])}

\* C12: a PUT on an existing record whose payload changes none of the
\* record's fields (empty, only nulls, or values equal to the stored ones) is
\* answered 400, and a PUT on an item_id without a record is answered 404.
C12_NoChangeIs400 ==
    [][(now' = now /\ last'.op \in UpdateOps /\ last'.ran)
       => LET existing == FindOne(collection, last'.item_id)
              d == CHOOSE r \in existing : TRUE
          IN  /\ existing = {} => last'.status = 404
              /\ (existing # {} /\ ChangedFields(last'.op, last'.body, d) = {})
                    => last'.status = 400
      ]_vars

-----------------------------------------------------------------------------
(* Properties of the middleware stack *)

\* C13: every response the server sends, error responses of the rate
\* limiter, the CSRF check, the host and CORS layers and the exception
\* handlers included, carries the security headers.
C13_SecurityHeadersOnAll ==
    last.op = "serve" =>
        {"X-Content-Type-Options", "X-Frame-Options", "Strict-Transport-Security",
         "Content-Security-Policy", "Referrer-Policy"} \subseteq last.headers

\* C14: the rate limiter is applied to every request before any other
\* processing: its check is the first step of every request, and a request
\* it rejects performs no other step.
C14_LimiterFirst ==
    last.op = "serve" =>
        /\ last.steps[1] = "rate_limit_middleware"
        /\ last.raised = 429 => last.steps = <<"rate_limit_middleware">>

\* C15: a request that finds 100 requests of its client in the rolling
\* 60-second window is answered with status 429.
C15_Answered429 ==
    (last.op = "serve" /\ last.raised = 429) => last.status = 429

-----------------------------------------------------------------------------
(* Properties of record identity *)

ItemIdsOf(coll) == {d["item_id"] : d \in coll}

\* C16: a successful DELETE of item_id n removes exactly the record n and
\* leaves every other record unchanged; while no record has item_id n, GET,
\* DELETE and PUT of n are answered 404; and n stays without a record until a
\* later create assigns n again (only a successful create brings an item_id
\* into the collection).
C16_HardDelete ==
    [][now' = now =>
          /\ (last'.op \in DeleteOps /\ last'.status = 200)
                => /\ Num(last'.item_id) \in ItemIdsOf(collection)
                   /\ collection' =
                         {d \in collection : d["item_id"] # Num(last'.item_id)}
          /\ (/\ last'.op \in ReadOps \cup UpdateOps \cup DeleteOps
              /\ last'.ran
              /\ Num(last'.item_id) \notin ItemIdsOf(collection))
                => last'.status = 404
          /\ \A id \in ItemIdsOf(collection') \ ItemIdsOf(collection) :
                /\ last'.op \in CreateOps
                /\ last'.phase = "insert"
                /\ last'.status = 200
                /\ id = Num(last'.item_id)
      ]_vars

\* C18: a successful PUT to item_id n leaves the record's item_id equal to n
\* and its created_at and _id unchanged, for both variants and every payload
\* the models accept; the set of item_ids is the same before and after.
C18_UpdatePreservesIdentity ==
    [][(now' = now /\ last'.op \in UpdateOps /\ last'.status = 200)
       => /\ ItemIdsOf(collection') = ItemIdsOf(collection)
          /\ \A old \in FindOne(collection, last'.item_id) :
                \E new \in FindOne(collection', last'.item_id) :
                   /\ new["_id"] = old["_id"]
                   /\ new["created_at"] = old["created_at"]
      ]_vars

-----------------------------------------------------------------------------
(* Properties of the token store across restarts *)

\* C17: a mutating request whose cookie and header carry the same token is
\* refused with 403 whenever that token is not in the token store (never
\* issued, swept, or issued before a restart); the handler does not run and
\* the collection is unchanged.
C17_UnknownTokenRefused ==
    [][(/\ MutatingArrival
        /\ last'.cookie = last'.header
        /\ last'.cookie # NoToken
        /\ last'.cookie \notin DOMAIN csrf_tokens)
       => /\ last'.status = 403
          /\ ~last'.ran
          /\ collection' = collection
          /\ pending' = pending
      ]_vars

\* a DELETE of a stored record refused although its token was issued less
\* than 24h ago: the store lost the token in a restart
C17_Witness ==
    /\ last.op = "delete_data"
    /\ last.status = 403
    /\ last.cookie = last.header
    /\ last.cookie \in DOMAIN issued_at
    /\ now - issued_at[last.cookie] <= TOKEN_TTL
    /\ last.cookie \notin DOMAIN csrf_tokens
    /\ FindOne(collection, last.item_id) # {}

====
